---- MODULE Spec2Model ----
(***************************************************************************)
(* Model of config.py of digraph_transformer: the dataset registry and     *)
(* get_config / get_default_config.                                        *)
(*                                                                         *)
(* Python objects are modelled with reference semantics: the four Dataset  *)
(* instances live in `heap` under their module-level names, the dict       *)
(* `datasets` maps registry keys to those objects, and a config's          *)
(* `dataset` field holds an object reference.  Floats are modelled as      *)
(* exact rationals [n, d]; for the magnitudes used here the double         *)
(* computations of lines 101-104 and 112-114 round to the same integers.   *)
(* A str is a sequence of one-character strings.                           *)
(***************************************************************************)
EXTENDS Integers, Sequences, FiniteSets, TLC

VARIABLES pc, preset, unique_presets, overlay_invoked, config, error, heap

vars == <<pc, preset, unique_presets, overlay_invoked, config, error, heap>>

---------------------------------------------------------------------------
(* Bounds and input sets                                                   *)

MaxLen == 3

Comma == ","
Alphabet == {"a", "b", Comma}

ExamplePreset == <<"a", Comma, "a", Comma, "b">>

PresetStrings == UNION {[1..n -> Alphabet] : n \in 0..MaxLen} \cup {ExamplePreset}

---------------------------------------------------------------------------
(* Optional[...] values and rationals                                      *)

None == {}
Some(x) == {x}

Rat(n, d) == [n |-> n, d |-> d]
RMulInt(r, k) == Rat(r.n * k, r.d)
RMul(r, s) == Rat(r.n * s.n, r.d * s.d)
RDiv(r, s) == Rat(r.n * s.d, r.d * s.n)
RDivInt(r, k) == Rat(r.n, r.d * k)
REq(r, s) == r.n * s.d = s.n * r.d

Abs(x) == IF x < 0 THEN -x ELSE x
Sign(x) == IF x < 0 THEN -1 ELSE 1

\* Python int(float): truncation toward zero.
int(r) == Sign(r.n) * Sign(r.d) * (Abs(r.n) \div Abs(r.d))

---------------------------------------------------------------------------
(* Dataset registry                                                        *)

Dataset(name, path, sequence_length, num_classes, ast_depth, num_nodetypes, num_nodeattributes, edge_df_types, edge_ast_types, num_train_samples, idx2vocab, vocab2idx) ==
  [name |-> name, path |-> path, sequence_length |-> sequence_length,
   num_classes |-> num_classes, ast_depth |-> ast_depth,
   num_nodetypes |-> num_nodetypes, num_nodeattributes |-> num_nodeattributes,
   edge_df_types |-> edge_df_types, edge_ast_types |-> edge_ast_types,
   num_train_samples |-> num_train_samples,
   idx2vocab |-> idx2vocab, vocab2idx |-> vocab2idx]

OGBG_CODE2 ==
  Dataset("ogbg-code2", "ogbg-code2", 5, 5002, 20, 98, 10030, None,
          None, 407976, None, None)

OGBG_CODE2_NOREV ==
  Dataset("ogbg-code2-norev", "ogbg-code2-norev", 5, 5002, 20,
          98, 10030, None, None, 407976, None, None)

OGBG_CODE2_NOREV_DF_no_ast ==
  Dataset("ogbg-code2-norev-df", "ogbg-code2-norev-df", 5,
          5002, 20, 113, 11973, Some(12), None, 407976, None, None)

OGBG_CODE2_NOREV_DF ==
  Dataset("ogbg-code2-norev-df", "ogbg-code2-norev-df", 5,
          5002, 20, 113, 11973, Some(12), Some(51), 407976, None, None)

SORTING_NETWORKS_keyed ==
  Dataset("sn-7to11-12-13to16", "7to11_12_13to16", 1, 2, -1, -1, 13, None,
          None, 800000, None, None)

SORTING_NETWORKS ==
  Dataset("sn", "7to11_12_13to16", 1, 2, -1, -1, 13, None,
          None, 800000, None, None)

\* The module-level Dataset objects, by the name that is bound to each.
ModuleObjects ==
  [o \in {"OGBG_CODE2", "OGBG_CODE2_NOREV", "OGBG_CODE2_NOREV_DF",
          "SORTING_NETWORKS"} |->
     CASE o = "OGBG_CODE2" -> OGBG_CODE2
       [] o = "OGBG_CODE2_NOREV" -> OGBG_CODE2_NOREV
       [] o = "OGBG_CODE2_NOREV_DF" -> OGBG_CODE2_NOREV_DF
       [] o = "SORTING_NETWORKS" -> SORTING_NETWORKS]

datasets ==
  [k \in {"ogbg-code2", "ogbg-code2-norev", "ogbg-code2-norev-df",
          "sn-7to11-12-13to16"} |->
     CASE k = "ogbg-code2" -> "OGBG_CODE2"
       [] k = "ogbg-code2-norev" -> "OGBG_CODE2_NOREV"
       [] k = "ogbg-code2-norev-df" -> "OGBG_CODE2_NOREV_DF"
       [] k = "sn-7to11-12-13to16" -> "SORTING_NETWORKS"]

\* datasets[name]: found is FALSE where Python raises KeyError.
lookup_default(name) ==
  [found |-> TRUE,
   obj |-> IF name \in DOMAIN datasets THEN datasets[name]
           ELSE datasets["ogbg-code2"]]

lookup_stale(name) ==
  [found |-> name \in DOMAIN datasets, obj |-> datasets["ogbg-code2"]]

lookup(name) ==
  IF name \in DOMAIN datasets
    THEN [found |-> TRUE, obj |-> datasets[name]]
    ELSE [found |-> FALSE, obj |-> "None"]

---------------------------------------------------------------------------
(* get_default_config                                                      *)

training_batch_size == 48
train_devices == 8

default_steps_per_epoch ==
  int(RDivInt(RDivInt(Rat(405000, 1), training_batch_size), train_devices))

\* The fields of the config that get_config reads or writes.  `dataset` is
\* "absent" until line 94 creates the field.
get_default_config ==
  [warmup_epochs |-> 2,
   epochs |-> 32,
   training_steps |-> 32 * default_steps_per_epoch,
   restore_path |-> "unset",
   data_root |-> None,
   dataset_name |-> "ogbg-code2",
   dataset |-> "absent",
   do_bucket_by_size |-> FALSE,
   batch_size |-> training_batch_size,
   lr_schedule |-> [warmup_steps |-> 2,
                    decay_steps |-> 32 * default_steps_per_epoch,
                    init_value |-> Rat(0, 1),
                    peak_value |-> Rat(1, 320000),
                    end_value |-> Rat(0, 1)]]

NoConfig == [absent |-> TRUE]

---------------------------------------------------------------------------
(* The preset overlay (presets.apply_presets)                              *)

DatasetNames == DOMAIN datasets \cup {"unregistered"}
BatchSizes == {48, 16, 0, -16}
EpochValues == {32, 10}
WarmupValues == {2, 5}
LrSchedules ==
  {get_default_config.lr_schedule,
   [warmup_steps |-> 7, decay_steps |-> 9, init_value |-> Rat(1, 1000000),
    peak_value |-> Rat(1, 1000), end_value |-> Rat(1, 100000)]}

\* What the presets in effect set, after last-wins merging.
Overrides ==
  [dataset_name : DatasetNames, batch_size : BatchSizes,
   epochs : EpochValues, warmup_epochs : WarmupValues,
   do_bucket_by_size : BOOLEAN, lr_schedule : LrSchedules]

apply_presets(c, names, ov) ==
  [c EXCEPT !.dataset_name = ov.dataset_name,
            !.batch_size = ov.batch_size,
            !.epochs = ov.epochs,
            !.warmup_epochs = ov.warmup_epochs,
            !.do_bucket_by_size = ov.do_bucket_by_size,
            !.lr_schedule = ov.lr_schedule]

---------------------------------------------------------------------------
(* get_config, lines 90-92: preset.split(',') and OrderedDict.fromkeys     *)

RECURSIVE split(_)
split(s) ==
  IF \A i \in 1..Len(s) : s[i] # Comma
    THEN <<s>>
    ELSE LET i == CHOOSE i \in 1..Len(s) :
                    s[i] = Comma /\ \A j \in 1..(i - 1) : s[j] # Comma
         IN  <<SubSeq(s, 1, i - 1)>> \o split(SubSeq(s, i + 1, Len(s)))

Contains(l, x) == \E i \in 1..Len(l) : l[i] = x

RECURSIVE insert_keys(_, _)
insert_keys(l, keys) ==
  IF l = <<>> THEN keys
  ELSE insert_keys(Tail(l),
                   IF Contains(keys, Head(l)) THEN keys
                   ELSE Append(keys, Head(l)))

RECURSIVE fromkeys_last(_)
fromkeys_last(l) ==
  IF l = <<>> THEN <<>>
  ELSE IF Contains(Tail(l), Head(l)) THEN fromkeys_last(Tail(l))
       ELSE <<Head(l)>> \o fromkeys_last(Tail(l))

fromkeys(l) == insert_keys(l, <<>>)

---------------------------------------------------------------------------
(* get_config, lines 97-114: derived fields                                *)

effective_batch_size_unbucketed(c) == Rat(c.batch_size, 1)

effective_batch_size(c) ==
  IF c.do_bucket_by_size
    THEN RMul(Rat(c.batch_size, 1), Rat(7, 2))
    ELSE Rat(c.batch_size, 1)

\* Python raises ZeroDivisionError at line 103 for a zero divisor.
division_by_zero(c) == effective_batch_size(c).n = 0

steps_per_epoch(c, ds) ==
  int(RDivInt(RDiv(Rat(ds.num_train_samples, 1), effective_batch_size(c)),
              train_devices))

training_steps_stale(c, spe) == c.training_steps

training_steps(c, spe) == c.epochs * spe

warmup_steps_stale(c, spe) == c.lr_schedule.warmup_steps

warmup_steps(c, spe) == c.warmup_epochs * spe

lr_scale_effective(c) == effective_batch_size(c)

lr_scale(c) == Rat(c.batch_size, 1)

derive(c, ds) ==
  LET spe == steps_per_epoch(c, ds)
      ts == training_steps(c, spe)
      lr == c.lr_schedule
  IN  [c EXCEPT !.training_steps = ts,
                !.lr_schedule =
                   [warmup_steps |-> warmup_steps(c, spe),
                    decay_steps |-> ts,
                    init_value |-> RMul(lr.init_value, lr_scale(c)),
                    peak_value |-> RMul(lr.peak_value, lr_scale(c)),
                    end_value |-> RMul(lr.end_value, lr_scale(c))]]

---------------------------------------------------------------------------
(* State machine: one get_config call after another                        *)

Init ==
  /\ pc = "idle"
  /\ preset = <<>>
  /\ unique_presets = <<>>
  /\ overlay_invoked = FALSE
  /\ config = NoConfig
  /\ error = "none"
  /\ heap = ModuleObjects

\* Lines 83-88: entry, default record, restore_path placeholder.
Call ==
  /\ pc \in {"idle", "returned", "raised"}
  /\ \E p \in PresetStrings : preset' = p
  /\ config' = [get_default_config EXCEPT !.restore_path = None]
  /\ unique_presets' = <<>>
  /\ overlay_invoked' = FALSE
  /\ error' = "none"
  /\ pc' = "built"
  /\ UNCHANGED heap

\* Lines 90-92.
ApplyPresets ==
  /\ pc = "built"
  /\ \/ /\ preset # <<>>
        /\ unique_presets' = fromkeys(split(preset))
        /\ overlay_invoked' = TRUE
        /\ \E ov \in Overrides :
             config' = apply_presets(config, unique_presets', ov)
     \/ /\ preset = <<>>
        /\ UNCHANGED <<unique_presets, overlay_invoked, config>>
  /\ pc' = "overlaid"
  /\ UNCHANGED <<preset, error, heap>>

\* Lines 94-95.
Resolve ==
  /\ pc = "overlaid"
  /\ LET r == lookup(config.dataset_name)
     IN  \/ /\ r.found
            /\ config' = [config EXCEPT !.dataset = r.obj]
            /\ pc' = "resolved"
            /\ UNCHANGED <<preset, unique_presets, error>>
         \/ /\ ~r.found
            /\ error' = "KeyError"
            /\ pc' = "raised"
            /\ preset' = <<>>
            /\ unique_presets' = <<>>
            /\ UNCHANGED config
  /\ UNCHANGED <<overlay_invoked, heap>>

\* Lines 97-116.  The locals go out of scope when the call ends.
Derive ==
  /\ pc = "resolved"
  /\ \/ /\ ~division_by_zero(config)
        /\ config' = derive(config, heap[config.dataset])
        /\ pc' = "returned"
        /\ UNCHANGED error
     \/ /\ division_by_zero(config)
        /\ error' = "ZeroDivisionError"
        /\ pc' = "raised"
        /\ UNCHANGED config
  /\ preset' = <<>>
  /\ unique_presets' = <<>>
  /\ UNCHANGED <<overlay_invoked, heap>>

Next == Call \/ ApplyPresets \/ Resolve \/ Derive

Spec == Init /\ [][Next]_vars

---------------------------------------------------------------------------
(* The caller of get_config.  Dataset is a plain (non-frozen) dataclass    *)
(* and line 94 stores the registry's own object in the config, so a write  *)
(* through config.experiment_kwargs.config.dataset lands in the heap.      *)

SampleCounts == {1000}

\* cfg.experiment_kwargs.config.dataset.num_train_samples = v
MutateDataset ==
  /\ pc = "returned"
  /\ \E v \in SampleCounts :
       heap' = [heap EXCEPT ![config.dataset].num_train_samples = v]
  /\ UNCHANGED <<pc, preset, unique_presets, overlay_invoked, config, error>>

\* cfg.epochs = v
MutateConfig ==
  /\ pc = "returned"
  /\ \E v \in EpochValues : config' = [config EXCEPT !.epochs = v]
  /\ UNCHANGED <<pc, preset, unique_presets, overlay_invoked, error, heap>>

NextCaller == Next \/ MutateDataset \/ MutateConfig

SpecCaller == Init /\ [][NextCaller]_vars

---------------------------------------------------------------------------
(* Claims                                                                  *)

Registered(k) == heap[datasets[k]]

\* C1 (as stated): for every key k of the dataset registry, datasets[k].name
\* equals k.
C1_NameEqualsKey ==
  \A k \in DOMAIN datasets : Registered(k).name = k

\* C1 (amended): datasets[k].name equals k for the three ogbg keys, and the
\* record registered under 'sn-7to11-12-13to16' has name 'sn'.
C1_NameEqualsKeyExceptSn ==
  \A k \in DOMAIN datasets :
    Registered(k).name = IF k = "sn-7to11-12-13to16" THEN "sn" ELSE k

C1_Witness ==
  /\ pc = "resolved"
  /\ config.dataset_name = "sn-7to11-12-13to16"
  /\ heap[config.dataset].name = "sn"

\* C7: edge_df_types and edge_ast_types are both present or both absent in
\* every registered record, and present exactly for 'ogbg-code2-norev-df'.
C7_EdgeTypesCoPresent ==
  \A k \in DOMAIN datasets :
    /\ (Registered(k).edge_df_types = None) <=>
       (Registered(k).edge_ast_types = None)
    /\ (k = "ogbg-code2-norev-df") <=> (Registered(k).edge_df_types # None)
    /\ (k = "ogbg-code2-norev-df") <=> (Registered(k).edge_ast_types # None)

C7_Witness ==
  /\ pc = "resolved"
  /\ config.dataset_name = "ogbg-code2-norev-df"
  /\ heap[config.dataset].edge_df_types = Some(12)
  /\ heap[config.dataset].edge_ast_types = Some(51)

Finished == pc \in {"returned", "raised"}

\* C2 (as stated): get_config fails if and only if the dataset_name in
\* effect after the overlay is not a registry key.
C2_FailsIffUnregistered ==
  Finished => ((pc = "raised") <=> (config.dataset_name \notin DOMAIN datasets))

\* C2 (amended): get_config fails if and only if the dataset_name after the
\* overlay is not a registry key (KeyError, raised first) or the training
\* batch size is zero (ZeroDivisionError); otherwise it returns a config.
C2_FailsIffUnregisteredOrZeroBatch ==
  Finished =>
    /\ (pc = "raised") <=> (\/ config.dataset_name \notin DOMAIN datasets
                            \/ config.batch_size = 0)
    /\ (config.dataset_name \notin DOMAIN datasets) => error = "KeyError"
    /\ (config.dataset_name \in DOMAIN datasets /\ config.batch_size = 0)
         => error = "ZeroDivisionError"
    /\ (pc = "returned") => error = "none"

C2_Witness ==
  /\ pc = "raised"
  /\ error = "ZeroDivisionError"
  /\ config.dataset_name \in DOMAIN datasets

NoDuplicates(l) == \A i, j \in 1..Len(l) : l[i] = l[j] => i = j
Elements(l) == {l[i] : i \in 1..Len(l)}
FirstIndex(l, x) == CHOOSE i \in 1..Len(l) :
                      l[i] = x /\ \A j \in 1..(i - 1) : l[j] # x

\* C3: the list handed to the preset overlay holds each name of the
\* comma-separated preset string once, in order of first occurrence
\* ("a,a,b" gives a then b); an empty preset string never reaches the overlay.
C3_DistinctInFirstOccurrenceOrder ==
  pc \in {"overlaid", "resolved"} =>
    IF preset = <<>>
      THEN ~overlay_invoked /\ unique_presets = <<>>
      ELSE /\ overlay_invoked
           /\ NoDuplicates(unique_presets)
           /\ Elements(unique_presets) = Elements(split(preset))
           /\ \A i, j \in 1..Len(unique_presets) :
                i < j => FirstIndex(split(preset), unique_presets[i])
                           < FirstIndex(split(preset), unique_presets[j])
           /\ preset = ExamplePreset => unique_presets = << <<"a">>, <<"b">> >>

C3_Witness ==
  /\ pc = "overlaid"
  /\ overlay_invoked
  /\ preset = ExamplePreset
  /\ unique_presets = << <<"a">>, <<"b">> >>

\* C4: for a positive training batch size B, training_steps equals
\* epochs * floor(num_train_samples / E / 8), with E = B without bucketing
\* and E = 3.5 * B with it; without presets it is
\* epochs * floor(407976 / 48 / 8).
C4_TrainingSteps ==
  (pc = "returned" /\ config.batch_size > 0) =>
    LET n == heap[config.dataset].num_train_samples
        B == config.batch_size
    IN  /\ config.training_steps =
             config.epochs * (IF config.do_bucket_by_size
                                THEN (2 * n) \div (7 * B * 8)
                                ELSE n \div (B * 8))
        /\ ~overlay_invoked =>
             /\ config.dataset_name = "ogbg-code2"
             /\ config.training_steps = config.epochs * (407976 \div (48 * 8))

C4_Witness ==
  /\ pc = "returned"
  /\ config.do_bucket_by_size
  /\ config.batch_size = 16
  /\ config.dataset_name = "sn-7to11-12-13to16"
  /\ config.epochs = 10
  /\ config.training_steps = 17850

\* C5: every returned config has decay_steps = training_steps and
\* warmup_steps = warmup_epochs * steps_per_epoch, whatever the schedule held
\* before.
C5_ScheduleSteps ==
  pc = "returned" =>
    /\ config.lr_schedule.decay_steps = config.training_steps
    /\ config.lr_schedule.warmup_steps =
         config.warmup_epochs * steps_per_epoch(config, heap[config.dataset])

C5_Witness ==
  /\ pc = "returned"
  /\ config.lr_schedule.init_value.d = 1000000
  /\ config.warmup_epochs = 5
  /\ config.batch_size = 48
  /\ ~config.do_bucket_by_size
  /\ config.dataset_name = "ogbg-code2"
  /\ config.lr_schedule.warmup_steps = 5310
  /\ config.lr_schedule.decay_steps = config.epochs * 1062

ScaledBy(after, before, B) == REq(after, RMulInt(before, B))

\* C6: the derivation multiplies init_value, peak_value and end_value by the
\* training batch size B once (not by the bucketing-adjusted size), no other
\* step after the overlay touches them, and the default peak becomes
\* (1e-4/32) * B.
C6_LrScaledByBatchSize ==
  [][/\ (pc = "resolved" /\ pc' = "returned") =>
          LET B == config.batch_size
              old == config.lr_schedule
              new == config'.lr_schedule
          IN  /\ ScaledBy(new.init_value, old.init_value, B)
              /\ ScaledBy(new.peak_value, old.peak_value, B)
              /\ ScaledBy(new.end_value, old.end_value, B)
              /\ old.peak_value = Rat(1, 320000) =>
                   REq(new.peak_value, Rat(B, 320000))
     /\ (pc = "overlaid" /\ pc' = "resolved") =>
          config'.lr_schedule = config.lr_schedule
    ]_vars

C6_Witness ==
  /\ pc = "returned"
  /\ config.do_bucket_by_size
  /\ config.batch_size = 16
  /\ REq(config.lr_schedule.peak_value, Rat(16, 320000))
  /\ config.lr_schedule.peak_value # get_default_config.lr_schedule.peak_value

\* C8 (as stated): after a successful get_config the field that held the
\* dataset name holds the resolved dataset record.
C8_NameFieldHoldsRecord ==
  pc = "returned" => config.dataset_name \in DOMAIN heap

\* C8 (amended): after a successful get_config the config has a `dataset`
\* field holding the registry record for dataset_name, and dataset_name
\* still holds the name.
C8_DatasetFieldHoldsRecord ==
  /\ [](pc = "returned" =>
          /\ config.dataset_name \in DOMAIN datasets
          /\ config.dataset = datasets[config.dataset_name])
  /\ [][(pc = "overlaid" /\ pc' = "resolved") =>
          /\ config.dataset = "absent"
          /\ config'.dataset = datasets[config.dataset_name]
          /\ config'.dataset_name = config.dataset_name]_vars

C8_Witness ==
  /\ pc = "returned"
  /\ config.dataset_name = "ogbg-code2-norev"
  /\ config.dataset = "OGBG_CODE2_NOREV"

\* C9: whatever a caller does to a returned config, its resolved dataset
\* record included, the dataset registry holds what it held at module load.
C9_RegistryUntouched ==
  \A k \in DOMAIN datasets : Registered(k) = ModuleObjects[datasets[k]]

StepOrder ==
  {<<"idle", "built">>, <<"returned", "built">>, <<"raised", "built">>,
   <<"built", "overlaid">>, <<"overlaid", "resolved">>,
   <<"overlaid", "raised">>, <<"resolved", "returned">>,
   <<"resolved", "raised">>}

Inputs(c) ==
  <<c.dataset_name, c.batch_size, c.epochs, c.warmup_epochs,
    c.do_bucket_by_size>>

\* C10: the steps run in the order defaults, overlay, dataset resolution,
\* derivation; nothing after the overlay changes dataset_name, batch size,
\* epochs, warmup_epochs or the bucketing flag; and every derived field of a
\* returned config is the one computed from those post-overlay values.
C10_DerivedFromOverlaidValues ==
  /\ [][pc' # pc => <<pc, pc'>> \in StepOrder]_vars
  /\ [][(pc \in {"overlaid", "resolved"} /\ pc' # "built") =>
          Inputs(config') = Inputs(config)]_vars
  /\ [][(pc = "resolved" /\ pc' = "returned") =>
          /\ ScaledBy(config'.lr_schedule.peak_value,
                      config.lr_schedule.peak_value, config.batch_size)
          /\ config.training_steps = get_default_config.training_steps]_vars
  /\ [](pc = "returned" =>
          LET spe == steps_per_epoch(config, heap[config.dataset])
          IN  /\ config.dataset = datasets[config.dataset_name]
              /\ config.training_steps = config.epochs * spe
              /\ config.lr_schedule.decay_steps = config.epochs * spe
              /\ config.lr_schedule.warmup_steps = config.warmup_epochs * spe)

C10_Witness ==
  /\ pc = "returned"
  /\ overlay_invoked
  /\ config.dataset_name = "sn-7to11-12-13to16"
  /\ config.batch_size = 16
  /\ ~config.do_bucket_by_size
  /\ config.epochs = 10
  /\ config.training_steps = 62500
  /\ config.training_steps # get_default_config.training_steps

====
